---- MODULE Spec2Model ----
(***************************************************************************)
(* http-tiny 1.2 (http_lib.c / http_lib.h): a model of the URL parser, the *)
(* request descriptor's string ownership, the query engine and the four    *)
(* verb operations.                                                        *)
(*                                                                         *)
(* A C string is a sequence of one-character strings.  The byte 0 is the   *)
(* token NUL.  A socket's incoming byte stream is such a sequence too; the *)
(* model reads it with the same calls, in the same order, as the code.     *)
(***************************************************************************)
EXTENDS Integers, Sequences, FiniteSets, TLC

\* ---------------------------------------------------------------- constants

\* http_lib.c:151
MAXBUF == 512

\* http_lib.h:47-59, the client side errors
ERRHOST == -1
ERRSOCK == -2
ERRCONN == -3
ERRWRHD == -4
ERRWRDT == -5
ERRRDHD == -6
ERRPAHD == -7
ERRNULL == -8
ERRNOLG == -9
ERRMEM == -10
ERRRDDT == -11
ERRURLH == -12
ERRURLP == -13

\* http_lib.c:519, the default port
DefaultPort == 80

\* ---------------------------------------------------------------- characters

NUL == "NUL"
CR == "\r"
LF == "\n"

Digits == <<"0", "1", "2", "3", "4", "5", "6", "7", "8", "9">>
Upper == <<"A", "B", "C", "D", "E", "F", "G", "H", "I", "J", "K", "L", "M",
           "N", "O", "P", "Q", "R", "S", "T", "U", "V", "W", "X", "Y", "Z">>
Lower == <<"a", "b", "c", "d", "e", "f", "g", "h", "i", "j", "k", "l", "m",
           "n", "o", "p", "q", "r", "s", "t", "u", "v", "w", "x", "y", "z">>

IsDigit(c) == \E i \in 1..10 : Digits[i] = c
DigitVal(c) == (CHOOSE i \in 1..10 : Digits[i] = c) - 1

\* isspace(3) in the C locale
IsSpace(c) == c \in {" ", "\t", "\n", "\r", "\f"}

\* tolower(3)
tolower(c) == IF \E i \in 1..26 : Upper[i] = c
              THEN Lower[CHOOSE i \in 1..26 : Upper[i] = c]
              ELSE c

\* s[a..b] as a sequence (empty when a > b)
Slice(s, a, b) == IF a > b THEN <<>> ELSE SubSeq(s, a, b)

Take(s, k) == Slice(s, 1, IF k < Len(s) THEN k ELSE Len(s))

Min(a, b) == IF a < b THEN a ELSE b

\* The C string held in a buffer: the bytes before the first NUL.
CStr(buf) == IF \E i \in 1..Len(buf) : buf[i] = NUL
             THEN Slice(buf, 1, (CHOOSE i \in 1..Len(buf) :
                           buf[i] = NUL /\ \A j \in 1..(i-1) : buf[j] # NUL) - 1)
             ELSE buf

\* s starts with lit at index i
MatchAt(s, i, lit) == /\ Len(s) >= i + Len(lit) - 1
                      /\ \A k \in 1..Len(lit) : s[i + k - 1] = lit[k]

\* ---------------------------------------------------------------- scanf

RECURSIVE SkipSpace(_, _)
\* a white-space directive, and the white space %d and %s skip first
SkipSpace(s, i) == IF i <= Len(s) /\ IsSpace(s[i]) THEN SkipSpace(s, i + 1) ELSE i

RECURSIVE ScanDigits(_, _, _, _)
\* the digits from index i on, at most w of them (w < 0: no limit)
ScanDigits(s, i, w, acc) ==
    IF i <= Len(s) /\ IsDigit(s[i]) /\ w # 0
    THEN ScanDigits(s, i + 1, w - 1,
                    [val |-> acc.val * 10 + DigitVal(s[i]), cnt |-> acc.cnt + 1, next |-> i + 1])
    ELSE acc

\* %d with field width w (w < 0: none): white space is skipped, then an
\* optional sign and decimal digits, sign and digits together within the width.
ScanInt(s, i, w) ==
    LET j == SkipSpace(s, i)
        signed == j <= Len(s) /\ s[j] \in {"-", "+"} /\ w # 0
        k == IF signed THEN j + 1 ELSE j
        d == ScanDigits(s, k, IF signed THEN w - 1 ELSE w, [val |-> 0, cnt |-> 0, next |-> k])
    IN  [ok |-> d.cnt > 0,
         val |-> IF signed /\ s[j] = "-" THEN 0 - d.val ELSE d.val,
         next |-> d.next]

RECURSIVE ScanWordEnd(_, _)
\* %s: the run of non-white-space characters from index i on ends before this index
ScanWordEnd(s, i) == IF i <= Len(s) /\ ~IsSpace(s[i]) THEN ScanWordEnd(s, i + 1) ELSE i

RECURSIVE IntToStr(_)
\* %d of printf, for n >= 0
IntToStr(n) == IF n < 10 THEN <<Digits[n + 1]>>
               ELSE IntToStr(n \div 10) \o <<Digits[(n % 10) + 1]>>

\* %d of printf
FmtInt(n) == IF n < 0 THEN <<"-">> \o IntToStr(0 - n) ELSE IntToStr(n)

\* ---------------------------------------------------------------- strings of the code

S_http == <<"h", "t", "t", "p", ":", "/", "/">>

\* ---------------------------------------------------------------- request descriptor

\* A char* field: NULL, a live heap string, or a dangling pointer to a freed one.
NULL == [st |-> "null", s |-> <<>>]
Str(s) == [st |-> "live", s |-> s]

\* struct http_req, zero-initialised
ZeroReq == [server |-> NULL, port |-> 0, proxy_server |-> NULL, proxy_port |-> 0,
            user_agent |-> NULL, pathname |-> NULL]

\* The heap blocks behind the descriptor: fieldLive live blocks allocated for its
\* fields, lost of them no longer referenced by any field, dfree set by a free of
\* a block already freed, urlCopies live copies made by strdup(url).
ZeroHeap == [fieldLive |-> 0, lost |-> 0, dfree |-> FALSE, urlCopies |-> 0]

\* free(p)
free(p, h) == IF p.st = "live" THEN [h EXCEPT !.fieldLive = @ - 1]
              ELSE IF p.st = "freed" THEN [h EXCEPT !.dfree = TRUE]
              ELSE h

\* field = malloc/strdup(...): a new live block stored over the field's old value
alloc(old, h) == [h EXCEPT !.fieldLive = @ + 1,
                           !.lost = IF old.st = "live" THEN @ + 1 ELSE @]

\* ---------------------------------------------------------------- http_parse_url

\* strcspn(s + i - 1, set): the characters from index i on that precede the
\* first one in set, or the end of the string
strcspn(s, i, set) ==
    IF \E k \in i..Len(s) : s[k] \in set
    THEN (CHOOSE k \in i..Len(s) : s[k] \in set /\ \A j \in i..(k - 1) : s[j] \notin set) - i
    ELSE IF i > Len(s) THEN 0 ELSE Len(s) - i + 1

\* strncasecmp("http://", ourUrl, 7) == 0
HasHttpPrefix(url) == /\ Len(url) >= 7
                      /\ \A k \in 1..7 : tolower(url[k]) = S_http[k]

\* The byte at index i of the copy of url: the string, its terminating NUL, and
\* past that whatever memory follows the copy.
MemAt(url, i) == IF i <= Len(url) THEN url[i] ELSE IF i = Len(url) + 1 THEN NUL ELSE "?"

\* ClearForParse with a slip: pathname is neither released nor reset
ClearForParse_KeepsPathname(r, h) ==
    LET h1 == IF r.server.st # "null" THEN free(r.server, h) ELSE h
    IN  [req |-> [r EXCEPT !.port = DefaultPort, !.server = NULL], heap |-> h1]

\* http_lib.c:519-527: the port is reset and both strings released
ClearForParse(r, h) ==
    LET h1 == IF r.server.st # "null" THEN free(r.server, h) ELSE h
        h2 == IF r.pathname.st # "null" THEN free(r.pathname, h1) ELSE h1
    IN  [req |-> [r EXCEPT !.port = DefaultPort, !.server = NULL, !.pathname = NULL],
         heap |-> h2]

\* http_lib.c:536-541: the host is what precedes the first ':' or '/'
ParseServer(url, p) == Slice(url, p, p + strcspn(url, p, {":", "/"}) - 1)

\* SkipPort with a slip: the '/' that ends the port is not skipped
SkipPort_KeepsSlash(url, p) == p + strcspn(url, p, {"/"})

\* http_lib.c:549-550: where the path starts after a port that starts at index p
SkipPort(url, p) == p + strcspn(url, p, {"/"}) + 1

\* http_lib.c:552: strdup(ourUrl) with ourUrl at index p.  Past the terminating
\* NUL the copy is of whatever follows in memory (beyond).
ParsePathname(url, p, beyond) == IF p <= Len(url) + 1 THEN Slice(url, p, Len(url)) ELSE beyond

\* http_lib.c:511-555.  beyond: the bytes that follow the copy of url in memory,
\* read only when the code reads past the copy's end (oob).
http_parse_url(r, h, url, beyond) ==
    LET c == ClearForParse(r, [h EXCEPT !.urlCopies = @ + 1])
    IN  IF ~HasHttpPrefix(url)
        THEN [req |-> c.req, heap |-> c.heap, ret |-> ERRURLH, oob |-> FALSE]
        ELSE
          LET p == 8
              host == ParseServer(url, p)
              h1 == alloc(c.req.server, c.heap)
              r1 == [c.req EXCEPT !.server = Str(host)]
              p2 == p + Len(host) + 1
              withPath(rr, q) ==
                  [req |-> [rr EXCEPT !.pathname = Str(ParsePathname(url, q, beyond))],
                   heap |-> alloc(rr.pathname, h1), ret |-> 0, oob |-> q > Len(url) + 1]
          IN  IF MemAt(url, p2 - 1) = ":"
              THEN LET sc == ScanInt(Slice(url, p2, Len(url)), 1, -1)
                   IN  IF ~sc.ok
                       THEN [req |-> r1, heap |-> h1, ret |-> ERRURLP, oob |-> FALSE]
                       ELSE withPath([r1 EXCEPT !.port = sc.val], SkipPort(url, p2))
              ELSE withPath(r1, p2)

\* http_lib.c:559-574
http_freereq(r, h) ==
    LET h1 == IF r.server.st # "null" THEN free(r.server, h) ELSE h
        h2 == IF r.proxy_server.st # "null" THEN free(r.proxy_server, h1) ELSE h1
        h3 == IF r.pathname.st # "null" THEN free(r.pathname, h2) ELSE h2
    IN  [req |-> [r EXCEPT !.server = NULL, !.proxy_server = NULL, !.pathname = NULL],
         heap |-> h3]

\* ---------------------------------------------------------------- URLs tried

\* the most calls of http_parse_url on one descriptor
MaxParse == 2

S_HTTP == <<"H", "t", "T", "p", ":", "/", "/">>
S_ftp == <<"f", "t", "p", ":", "/", "/">>
S_short == <<"h", "t", "t", "p", ":">>

UrlSchemes == {S_http, S_HTTP, S_ftp, S_short}
UrlHosts == {<<"h">>, <<"a", ".", "b">>, <<>>}
UrlPorts == {<<"8", "0", "8", "0">>, <<"0", "8", "1">>, <<>>, <<"x">>, <<"-", "1">>}
UrlPaths == {<<>>, <<"p">>, <<"a", "/", "b">>, <<"a", ":", "b">>}

\* scheme host [":" port] ["/" path]
UrlParts == [scheme : UrlSchemes, host : UrlHosts, hasPort : BOOLEAN, port : UrlPorts,
             hasPath : BOOLEAN, path : UrlPaths]

\* every shape after http://, and a few after the other prefixes
UrlInputs == {u \in UrlParts : /\ (~u.hasPort => u.port = <<>>)
                               /\ (~u.hasPath => u.path = <<>>)
                               /\ (u.scheme # S_http =>
                                      /\ u.host = <<"h">>
                                      /\ u.port \in {<<>>, <<"8", "0", "8", "0">>}
                                      /\ u.path \in {<<>>, <<"p">>})}

UrlText(u) == u.scheme \o u.host
              \o (IF u.hasPort THEN <<":">> \o u.port ELSE <<>>)
              \o (IF u.hasPath THEN <<"/">> \o u.path ELSE <<>>)

\* what may follow the copy of the URL in memory, up to the next NUL
Beyond == {<<>>, <<"?">>}

\* ---------------------------------------------------------------- http_read_line

\* ReadLineTurn with a slip: a CR is not counted
ReadLineTurn_CrNotCounted(rl, r, b) ==
    IF r # 1 THEN [n |-> 0 - rl.n, buf |-> rl.buf, more |-> FALSE]
    ELSE IF b = CR THEN [n |-> rl.n, buf |-> rl.buf, more |-> TRUE]
    ELSE IF b = LF THEN [n |-> rl.n + 1, buf |-> rl.buf, more |-> FALSE]
    ELSE [n |-> rl.n + 1, buf |-> Append(rl.buf, b), more |-> TRUE]

\* http_lib.c:102-117, one turn of the loop.  rl = [n, buf] is the count and the
\* bytes stored so far, r what recv returned, b the byte it delivered.  A CR is
\* stored where the next byte overwrites it, so buf never holds it.
ReadLineTurn(rl, r, b) ==
    IF r # 1 THEN [n |-> 0 - rl.n, buf |-> rl.buf, more |-> FALSE]
    ELSE IF b = CR THEN [n |-> rl.n + 1, buf |-> rl.buf, more |-> TRUE]
    ELSE IF b = LF THEN [n |-> rl.n + 1, buf |-> rl.buf, more |-> FALSE]
    ELSE [n |-> rl.n + 1, buf |-> Append(rl.buf, b), more |-> TRUE]

\* http_lib.c:102, while (n<max), after a turn that neither failed nor met LF
ReadLineGoesOn(n, max) == n < max

\* ---------------------------------------------------------------- the status line

S_HTTP1 == <<"H", "T", "T", "P", "/", "1", ".">>

\* sscanf_status with a slip: the status is scanned with %02d
sscanf_status_TwoDigits(s) ==
    IF ~MatchAt(s, 1, S_HTTP1) THEN [conv |-> 0, val |-> 0]
    ELSE LET minor == ScanInt(s, Len(S_HTTP1) + 1, -1)
         IN  IF ~minor.ok THEN [conv |-> 0, val |-> 0]
             ELSE LET code == ScanInt(s, SkipSpace(s, minor.next), 2)
                  IN  IF code.ok THEN [conv |-> 1, val |-> code.val]
                      ELSE [conv |-> 0, val |-> 0]

\* http_lib.c:265, sscanf(header, "HTTP/1.%*d %03d", &ret): the number of
\* conversions stored (anything but 1 is a failure) and the value stored
sscanf_status(s) ==
    IF ~MatchAt(s, 1, S_HTTP1) THEN [conv |-> 0, val |-> 0]
    ELSE LET minor == ScanInt(s, Len(S_HTTP1) + 1, -1)
         IN  IF ~minor.ok THEN [conv |-> 0, val |-> 0]
             ELSE LET code == ScanInt(s, SkipSpace(s, minor.next), 3)
                  IN  IF code.ok THEN [conv |-> 1, val |-> code.val]
                      ELSE [conv |-> 0, val |-> 0]

\* http_lib.c:261-266: ret after the status line was read (n, buf)
StatusRet(n, buf) ==
    IF n <= 0 THEN [ret |-> ERRRDHD, parsed |-> FALSE]
    ELSE LET sc == sscanf_status(CStr(buf))
         IN  IF sc.conv # 1 THEN [ret |-> ERRPAHD, parsed |-> FALSE]
             ELSE [ret |-> sc.val, parsed |-> TRUE]

\* ---------------------------------------------------------------- response headers

S_clen == <<"c", "o", "n", "t", "e", "n", "t", "-", "l", "e", "n", "g", "t", "h", ":">>
S_ctype == <<"c", "o", "n", "t", "e", "n", "t", "-", "t", "y", "p", "e", ":">>

\* http_lib.c:382-384: lower case until a ':' or the end of the string
LowerKey(s) ==
    LET k == IF \E i \in 1..Len(s) : s[i] = ":"
             THEN CHOOSE i \in 1..Len(s) : s[i] = ":" /\ \A j \in 1..(i - 1) : s[j] # ":"
             ELSE Len(s) + 1
    IN  [i \in 1..Len(s) |-> IF i < k THEN tolower(s[i]) ELSE s[i]]

\* http_lib.c:385, sscanf(header,"content-length: %d",&length): length afterwards
sscanf_length(s, length) ==
    IF ~MatchAt(s, 1, S_clen) THEN length
    ELSE LET v == ScanInt(s, SkipSpace(s, Len(S_clen) + 1), -1)
         IN  IF v.ok THEN v.val ELSE length

\* http_lib.c:387, sscanf(header,"content-type: %s",typebuf): typebuf afterwards
sscanf_type(s, typebuf) ==
    IF ~MatchAt(s, 1, S_ctype) THEN typebuf
    ELSE LET i == SkipSpace(s, Len(S_ctype) + 1)
             j == ScanWordEnd(s, i)
         IN  IF j > i THEN Slice(s, i, j - 1) ELSE typebuf

\* http_lib.c:375 and 467: the line read is empty
IsEndOfHeader(n, buf) == n > 0 /\ CStr(buf) = <<>>

\* ---------------------------------------------------------------- request head

S_reqtail == <<" ", "H", "T", "T", "P", "/", "1", ".", "0", CR, LF, "U", "s", "e", "r", "-", "A", "g", "e", "n", "t", ":", " ">>
S_crlf == <<CR, LF>>
S_putlen == <<"C", "o", "n", "t", "e", "n", "t", "-", "l", "e", "n", "g", "t", "h", ":", " ">>
S_puttype == <<"C", "o", "n", "t", "e", "n", "t", "-", "t", "y", "p", "e", ":", " ">>
S_putover == <<"C", "o", "n", "t", "r", "o", "l", ":", " ", "o", "v", "e", "r", "w", "r", "i", "t", "e", "=", "1", CR, LF>>

\* snprintf(buf, MAXBUF, ...) followed by strlen: at most MAXBUF-1 characters
snprintf(text) == Take(text, MAXBUF - 1)

\* A size_t is held as four 16-bit limbs, least significant first.
SizeZero == <<0, 0, 0, 0>>

\* (int)length of a size_t: the low 32 bits, as a signed number
ToInt(x) == IF x[2] >= 32768 THEN (x[2] - 65536) * 65536 + x[1] ELSE x[2] * 65536 + x[1]

\* (size_t)v of an int
ToSizeT(v) == <<v % 65536, (v \div 65536) % 65536,
               IF v < 0 THEN 65535 ELSE 0, IF v < 0 THEN 65535 ELSE 0>>

\* UsesProxy with a slip: the proxy port is not looked at
UsesProxy_ServerOnly(r) == r.proxy_server.st # "null"

\* http_lib.c:181
UsesProxy(r) == r.proxy_server.st # "null" /\ r.proxy_port # 0

\* http_lib.c:234-246
QueryHeader(r, method, additional_header) ==
    IF UsesProxy(r)
    THEN snprintf(method \o <<" ">> \o S_http \o Take(r.server.s, 128) \o <<":">>
                  \o FmtInt(r.port) \o <<"/">> \o Take(r.pathname.s, 256) \o S_reqtail
                  \o r.user_agent.s \o S_crlf \o additional_header \o S_crlf)
    ELSE snprintf(method \o <<" ", "/">> \o Take(r.pathname.s, 256) \o S_reqtail
                  \o r.user_agent.s \o S_crlf \o additional_header \o S_crlf)

\* http_lib.c:304-311
PutHeader(length, overwrite, type) ==
    snprintf(S_putlen \o FmtInt(ToInt(length)) \o S_crlf
             \o (IF type.st # "null" THEN S_puttype \o Take(type.s, 64) \o S_crlf ELSE <<>>)
             \o (IF overwrite THEN S_putover ELSE <<>>))

\* the arguments each verb passes to http_query: http_lib.c:313, 358, 452, 500
Method(c) == CASE c.verb = "PUT" -> <<"P", "U", "T">>
               [] c.verb = "GET" -> <<"G", "E", "T">>
               [] c.verb = "HEAD" -> <<"H", "E", "A", "D">>
               [] OTHER -> <<"D", "E", "L", "E", "T", "E">>

AdditionalHeader(c) == IF c.verb = "PUT" THEN PutHeader(c.length, c.overwrite, c.type) ELSE <<>>

KeepOpen(c) == c.verb \in {"GET", "HEAD"}

\* http_lib.c:254: the body is written
HasBody(c) == c.verb = "PUT" /\ c.length # SizeZero /\ ~c.dataNull

\* ---------------------------------------------------------------- one call

VARIABLES
    req,      \* the caller's struct http_req
    heap,     \* the heap blocks behind the descriptor's strings
    u,        \* the last descriptor operation: its kind, its URL, its result
    call,     \* the arguments of the verb operation being executed
    peer,     \* what the network answers during the call: the resolver's
              \* address list, the server's response and its bytes
    m         \* the locals of the call: http_query's and the verb's

vars == <<req, heap, u, call, peer, m>>

\* m.pc names the system call the code is about to make, or "done" once the
\* verb has returned m.ret.  m.fail names the first call that failed, m.steps
\* the steps http_query has taken, m.parsed and m.status what sscanf made of the
\* status line, m.pos the bytes consumed from the connection.
NewCall ==
    [pc |-> "resolve", ret |-> 0, fail |-> "none", steps |-> <<>>,
     target |-> NULL, port |-> 0,
     ai |-> <<>>, aiLive |-> FALSE, aiAllocs |-> 0, aiFrees |-> 0, thisaddr |-> 0,
     created |-> 0, closes |-> 0, fdset |-> FALSE, badclose |-> FALSE,
     parsed |-> FALSE, status |-> 0,
     header |-> <<>>, wrote |-> <<>>, body |-> SizeZero,
     pos |-> 0, n |-> 0, buf |-> <<>>, lines |-> 0,
     length |-> -1, plength |-> SizeZero, typebuf |-> <<>>,
     pdata |-> NULL, mallocs |-> 0, frees |-> 0, got |-> 0, chunks |-> 0,
     sockFrom |-> 0, addrFrom |-> 0, lenFrom |-> 0]

Idle == [NewCall EXCEPT !.pc = "idle"]

\* no response
NoResp == [status |-> [wf |-> FALSE, code |-> 0, text |-> <<>>], eol |-> <<>>, hdrs |-> <<>>, body |-> <<>>]

NoPeer == [addrs |-> <<>>, resp |-> NoResp, bytes |-> <<>>]

NoCall == [verb |-> "none", pdataNull |-> FALSE, plengthNull |-> FALSE, typebufNull |-> FALSE,
           dataNull |-> FALSE, length |-> SizeZero, overwrite |-> FALSE, type |-> NULL]

\* closesocket(s) in http_query
CloseS(x) == [x EXCEPT !.closes = @ + 1]

\* closesocket(fd) in http_get and http_head: fd is s once http_query stored it
CloseFd(x) == IF x.fdset THEN [x EXCEPT !.closes = @ + 1] ELSE [x EXCEPT !.badclose = TRUE]

Returns(x, r) == [x EXCEPT !.pc = "done", !.ret = r]

\* http_lib.c:360-365 and 453-458: what http_get and http_head do with a result
\* of http_query other than 200
ClosesAfterQuery(r) == r >= 0

\* http_lib.c:313, 500, 358-365, 452-458: http_query returned r to the verb
QueryReturned(x, c, r) ==
    IF ~KeepOpen(c) THEN Returns(x, r)
    ELSE IF r # 200 THEN Returns(IF ClosesAfterQuery(r) THEN CloseFd(x) ELSE x, r)
    ELSE [x EXCEPT !.pc = "header_line", !.ret = r, !.n = 0, !.buf = <<>>]

\* http_lib.c:275-279
EarlyBail(x, c, r) ==
    QueryReturned(IF x.aiLive THEN [x EXCEPT !.aiLive = FALSE, !.aiFrees = @ + 1] ELSE x, c, r)

\* ClosesAtBail with a slip: the socket kept for the caller is not closed when
\* the query failed
ClosesAtBail_KeepsOnError(keep_open, r) == ~keep_open

\* http_lib.c:272
ClosesAtBail(keep_open, r) == ~keep_open \/ r < 0

\* http_lib.c:270-274
Bail(x, c, r) == EarlyBail(IF ClosesAtBail(KeepOpen(c), r) THEN CloseS(x) ELSE x, c, r)

\* http_lib.c:198-203: the index of the first IPv4 or IPv6 entry, 0 when none
FirstUsable(list) ==
    IF \E i \in 1..Len(list) : list[i] \in {"AF_INET", "AF_INET6"}
    THEN CHOOSE i \in 1..Len(list) : /\ list[i] \in {"AF_INET", "AF_INET6"}
                                     /\ \A j \in 1..(i - 1) : list[j] \notin {"AF_INET", "AF_INET6"}
    ELSE 0

\* http_lib.c:208, memcpy(&server, addrinfo->ai_addr, addrinfo->ai_addrlen):
\* the list entry whose address is copied, the head of the list
CopiedEntry(list, thisaddr) == 1

\* http_lib.c:181-208.  rc is what getaddrinfo returned, list the families of
\* the address list it produced.
AfterGetaddrinfo(x, c, r, rc, list) ==
    LET x1 == [x EXCEPT !.steps = Append(@, "resolve"),
                        !.target = IF UsesProxy(r) THEN r.proxy_server ELSE r.server,
                        !.port = IF UsesProxy(r) THEN r.proxy_port ELSE r.port]
    IN  IF rc # 0 THEN QueryReturned([x1 EXCEPT !.fail = "resolve"], c, ERRHOST)
        ELSE LET x2 == [x1 EXCEPT !.ai = list, !.aiLive = TRUE, !.aiAllocs = @ + 1,
                                  !.thisaddr = FirstUsable(list)]
             IN  IF x2.thisaddr = 0 THEN EarlyBail([x2 EXCEPT !.fail = "resolve"], c, ERRHOST)
                 ELSE [x2 EXCEPT !.addrFrom = CopiedEntry(list, x2.thisaddr), !.pc = "socket"]

\* http_lib.c:223-226.  s is what socket returned.
AfterSocket(x, c, s) ==
    LET x1 == [x EXCEPT !.steps = Append(@, "socket")]
    IN  IF s < 0 THEN EarlyBail([x1 EXCEPT !.fail = "socket"], c, ERRSOCK)
        ELSE [x1 EXCEPT !.created = @ + 1, !.sockFrom = x.thisaddr, !.pc = "connect"]

\* http_lib.c:229-246.  rc is what connect returned.
AfterConnect(x, c, r, rc) ==
    LET x1 == [x EXCEPT !.steps = Append(@, "connect"), !.lenFrom = x.thisaddr]
    IN  IF rc < 0 THEN Bail([x1 EXCEPT !.fail = "connect"], c, ERRCONN)
        ELSE [x1 EXCEPT !.header = QueryHeader(r, Method(c), AdditionalHeader(c)),
                        !.pc = "send_header"]

\* SentAll with a slip: the result of send is not compared with the length
SentAll_Unchecked(sent, len) == TRUE

\* http_lib.c:248 and 254: send wrote everything
SentAll(sent, len) == sent = len

\* http_lib.c:261, the first turn of http_read_line is next
StartLine(x, where) == [x EXCEPT !.pc = where, !.n = 0, !.buf = <<>>]

\* http_lib.c:248-254.  sent is what send returned.
AfterSendHeader(x, c, sent) ==
    LET x1 == [x EXCEPT !.steps = Append(@, "write_header"),
                        !.wrote = Take(x.header, IF sent > 0 THEN sent ELSE 0)]
    IN  IF ~SentAll(sent, Len(x.header)) THEN Bail([x1 EXCEPT !.fail = "write_header"], c, ERRWRHD)
        ELSE IF HasBody(c) THEN [x1 EXCEPT !.pc = "send_body"]
        ELSE StartLine(x1, "status_line")

\* http_lib.c:254-258.  sent is what send returned, as a size_t.
AfterSendBody(x, c, sent) ==
    LET x1 == [x EXCEPT !.steps = Append(@, "write_body"),
                        !.body = IF sent = ToSizeT(-1) THEN SizeZero ELSE sent]
    IN  IF ~SentAll(sent, c.length) THEN Bail([x1 EXCEPT !.fail = "write_body"], c, ERRWRDT)
        ELSE StartLine(x1, "status_line")

\* http_lib.c:261-279: the status line was read
AfterStatusLine(x, c) ==
    LET st == StatusRet(x.n, x.buf)
        x1 == IF st.parsed THEN [x EXCEPT !.parsed = TRUE, !.status = st.ret] ELSE x
    IN  Bail(IF st.parsed /\ KeepOpen(c) THEN [x1 EXCEPT !.fdset = TRUE] ELSE x1, c, st.ret)

\* http_lib.c:391-404: http_get at the end of the header
GetAfterHeader(x, c) ==
    IF x.length <= 0 THEN Returns(CloseFd(x), ERRNOLG)
    ELSE [x EXCEPT !.plength = IF c.plengthNull THEN @ ELSE ToSizeT(x.length), !.pc = "malloc"]

\* http_lib.c:479-483: http_head at the end of the header
HeadAfterHeader(x, c) ==
    Returns(CloseFd([x EXCEPT !.plength = IF c.plengthNull THEN @ ELSE ToSizeT(x.length)]), x.ret)

\* http_lib.c:380-388: a header line that is not empty
ParseKeywords(x, c) ==
    LET line == LowerKey(CStr(x.buf))
    IN  [x EXCEPT !.length = sscanf_length(line, @),
                  !.typebuf = IF c.typebufNull THEN @ ELSE sscanf_type(line, @)]

\* AfterHeaderLine with a slip: http_head keeps the body phase of http_get, from
\* which it was copied
AfterHeaderLine_HeadAsGet(x, c) ==
    IF x.n <= 0 THEN Returns(CloseFd(x), ERRRDHD)
    ELSE IF IsEndOfHeader(x.n, x.buf) THEN GetAfterHeader(x, c)
         ELSE StartLine([ParseKeywords(x, c) EXCEPT !.lines = @ + 1], "header_line")

\* http_lib.c:368-389 and 460-478: a header line was read
AfterHeaderLine(x, c) ==
    IF x.n <= 0 THEN Returns(CloseFd(x), ERRRDHD)
    ELSE IF IsEndOfHeader(x.n, x.buf)
         THEN (IF c.verb = "GET" THEN GetAfterHeader(x, c) ELSE HeadAfterHeader(x, c))
         ELSE StartLine([ParseKeywords(x, c) EXCEPT !.lines = @ + 1], "header_line")

\* http_lib.c:261, 368, 460: a turn of http_read_line(fd, header, MAXBUF-1).
\* r is what recv returned.
AfterRecvLine(x, c, strm, r) ==
    LET t == ReadLineTurn([n |-> x.n, buf |-> x.buf], r, IF r = 1 THEN strm[x.pos + 1] ELSE NUL)
        x1 == [x EXCEPT !.n = t.n, !.buf = t.buf,
                        !.pos = IF r = 1 THEN @ + 1 ELSE @,
                        !.fail = IF r = 1 THEN @ ELSE "read",
                        !.steps = IF x.pc = "status_line" /\ x.n = 0
                                  THEN Append(@, "read_status") ELSE @]
    IN  IF t.more /\ ReadLineGoesOn(t.n, MAXBUF - 1) THEN x1
        ELSE IF x.pc = "status_line" THEN AfterStatusLine(x1, c)
        ELSE AfterHeaderLine(x1, c)

\* http_lib.c:400-404.  ok: malloc returned a block.
AfterMalloc(x, c, ok) ==
    IF ~ok THEN Returns(CloseFd([x EXCEPT !.fail = "malloc"]), ERRMEM)
    ELSE [x EXCEPT !.pdata = Str(<<>>), !.mallocs = @ + 1, !.pc = "body", !.n = 0]

\* http_lib.c:406-411: http_read_buffer returned got
AfterReadBuffer(x, got) ==
    IF got # x.length THEN Returns(CloseFd([x EXCEPT !.got = got]), ERRRDDT)
    ELSE Returns(CloseFd([x EXCEPT !.got = got]), x.ret)

\* AfterRecvBody with a slip: recv is called once, without the loop
AfterRecvBody_OneRecv(x, strm, r) ==
    IF r <= 0 THEN AfterReadBuffer([x EXCEPT !.fail = "read"], 0 - x.n)
    ELSE LET x1 == [x EXCEPT !.n = @ + r, !.pos = @ + r, !.chunks = @ + 1,
                             !.pdata = Str(@.s \o Slice(strm, x.pos + 1, x.pos + r))]
         IN  AfterReadBuffer(x1, x1.n)

\* http_lib.c:137-145, one turn of http_read_buffer's loop inside http_get.
\* r is what recv(fd, buffer, length-n, 0) returned.
AfterRecvBody(x, strm, r) ==
    IF r <= 0 THEN AfterReadBuffer([x EXCEPT !.fail = "read"], 0 - x.n)
    ELSE LET x1 == [x EXCEPT !.n = @ + r, !.pos = @ + r, !.chunks = @ + 1,
                             !.pdata = Str(@.s \o Slice(strm, x.pos + 1, x.pos + r))]
         IN  IF x1.n < x1.length THEN x1 ELSE AfterReadBuffer(x1, x1.n)

\* http_lib.c:346-358 and 444-452: the verb before it calls http_query
Entry(c) ==
    IF c.verb = "GET" /\ c.pdataNull THEN Returns(NewCall, ERRNULL) ELSE NewCall

\* ---------------------------------------------------------------- responses tried

\* A status line of the form HTTP/1.<minor> <ddd>[ reason], with the number its
\* three digits d denote
WfStatus(minor, d, reason) ==
    [wf |-> TRUE, code |-> 100 * DigitVal(d[1]) + 10 * DigitVal(d[2]) + DigitVal(d[3]),
     text |-> S_HTTP1 \o minor \o <<" ">> \o d \o reason]

\* any other first line
OtherStatus(text) == [wf |-> FALSE, code |-> 0, text |-> text]

Status200 == WfStatus(<<"0">>, <<"2", "0", "0">>, <<>>)

StatusInputs ==
    {Status200,
     WfStatus(<<"1">>, <<"2", "0", "0">>, <<" ", "O", "K">>),
     WfStatus(<<"1">>, <<"4", "0", "4">>, <<" ", "N", "o">>),
     WfStatus(<<"0">>, <<"2", "0", "1">>, <<>>),
     WfStatus(<<"1", "2">>, <<"0", "0", "0">>, <<>>),
     OtherStatus(<<"H", "T", "T", "P", "/", "1", ".", "0", " ", "-", "1", "2">>),
     OtherStatus(<<"H", "T", "T", "P", "/", "1", ".", "0", " ", "2", "0", "0", "0">>),
     OtherStatus(<<"H", "T", "T", "P", "/", "1", ".", "1", " ", "-">>),
     OtherStatus(<<"H", "T", "T", "P", "/", "2", " ", "2", "0", "0">>),
     OtherStatus(<<"a", "b", "c">>),
     OtherStatus(<<>>)}

\* A header line the server sends: a Content-Length header of value val, a
\* Content-Type header, or another line.
HLength(name, val) == [kind |-> "length", val |-> val, text |-> name \o FmtInt(val)]
HType(t) == [kind |-> "type", val |-> 0, text |-> <<"C", "o", "n", "t", "e", "n", "t", "-", "T", "y", "p", "e", ":", " ">> \o t]
HOther(text) == [kind |-> "other", val |-> 0, text |-> text]

\* a header line of exactly MAXBUF-1 bytes
LongText == <<"X", ":">> \o [i \in 1..(MAXBUF - 3) |-> "x"]

H_len(v) == HLength(<<"C", "o", "n", "t", "e", "n", "t", "-", "L", "e", "n", "g", "t", "h", ":", " ">>, v)

HeaderInputs ==
    {<<>>,
     <<H_len(5)>>,
     <<HType(<<"t", "/", "p">>), HLength(<<"c", "o", "n", "t", "e", "n", "t", "-", "l", "e", "n", "g", "t", "h", ":">>, 3)>>,
     <<HLength(<<"C", "O", "N", "T", "E", "N", "T", "-", "L", "E", "N", "G", "T", "H", ":", " ", " ">>, 4), HOther(<<"X", ":", " ", "y">>)>>,
     <<H_len(7)>>,
     <<H_len(0)>>,
     <<H_len(-2)>>,
     <<HOther(<<"C", "o", "n", "t", "e", "n", "t", "-", "L", "e", "n", "g", "t", "h", ":", " ", "z">>)>>,
     <<H_len(3), H_len(0)>>,
     <<H_len(0), H_len(3)>>,
     <<H_len(3), HOther(<<NUL, "x">>)>>,
     <<H_len(3), HOther(LongText)>>,
     <<HOther(LongText), H_len(3)>>,
     <<HOther(LongText \o <<"c", "o", "n", "t", "e", "n", "t", "-", "l", "e", "n", "g", "t", "h", ":", " ", "4">>)>>}

BodyInput == <<"h", "e", "l", "l", "o", "!">>

EolInputs == {S_crlf, <<LF>>}

RECURSIVE JoinLines(_, _)
\* every header line followed by the line ending
JoinLines(hs, eol) == IF hs = <<>> THEN <<>> ELSE Head(hs).text \o eol \o JoinLines(Tail(hs), eol)

\* status line, header lines, an empty line, body
ResponseBytes(r) == r.status.text \o r.eol \o JoinLines(r.hdrs, r.eol) \o r.eol \o r.body

\* the index in the stream of the first body byte
BodyStart(r) == Len(ResponseBytes(r)) - Len(r.body) + 1

\* header lines short enough for http_read_line to read each in one call
ShortHeaders == {h \in HeaderInputs : \A i \in 1..Len(h) : Len(h[i].text) < MAXBUF - 2}

Response(s, e, h) == [status |-> s, eol |-> e, hdrs |-> h, body |-> BodyInput]

BaseResponse == Response(Status200, S_crlf, <<H_len(5)>>)

ResponseInputs ==
    {Response(Status200, e, h) : e \in EolInputs, h \in ShortHeaders}
    \cup {Response(Status200, <<LF>>, h) : h \in HeaderInputs}
    \cup {Response(s, S_crlf, <<H_len(5)>>) : s \in StatusInputs}

\* the address lists getaddrinfo may produce, as the families of their entries
AddrLists == {<<"AF_INET">>, <<"AF_UNIX", "AF_INET6">>, <<"AF_UNIX">>}

Peer(a, r) == [addrs |-> a, resp |-> r, bytes |-> ResponseBytes(r)]

\* 0, 3, 2^31 + 3 and 2^32 + 5
PutLengths == {SizeZero, <<3, 0, 0, 0>>, <<3, 32768, 0, 0>>, <<5, 0, 1, 0>>}

PutCall(d, l, o, t) == [NoCall EXCEPT !.verb = "PUT", !.dataNull = d, !.length = l,
                                  !.overwrite = o, !.type = t]
DeleteCall == [NoCall EXCEPT !.verb = "DELETE"]
GetCall(pd, pl, tb) == [NoCall EXCEPT !.verb = "GET", !.pdataNull = pd, !.plengthNull = pl,
                                  !.typebufNull = tb]
HeadCall(pl, tb) == [NoCall EXCEPT !.verb = "HEAD", !.plengthNull = pl, !.typebufNull = tb]

Readers == {GetCall(FALSE, pl, tb) : pl \in BOOLEAN, tb \in BOOLEAN}
           \cup {HeadCall(pl, tb) : pl \in BOOLEAN, tb \in BOOLEAN}

Writers == {PutCall(d, l, o, t) : d \in BOOLEAN, l \in PutLengths, o \in BOOLEAN,
                              t \in {NULL, Str(<<"t", "/", "p">>)}}
           \cup {DeleteCall}

\* The calls tried, each with what the network answers: every response with the
\* plain arguments, every argument and every address list with a few responses.
Scenarios ==
    ({GetCall(FALSE, FALSE, FALSE), HeadCall(FALSE, FALSE)}
        \X {Peer(<<"AF_INET">>, r) : r \in ResponseInputs})
    \cup (Readers \X {Peer(<<"AF_INET">>, r) :
                        r \in {BaseResponse,
                               Response(Status200, <<LF>>,
                                        <<HType(<<"t", "/", "p">>), HLength(<<"c", "o", "n", "t", "e", "n", "t", "-", "l", "e", "n", "g", "t", "h", ":">>, 3)>>),
                               Response(Status200, S_crlf, <<>>)}})
    \cup (Writers \X {Peer(<<"AF_INET">>, Response(s, S_crlf, <<>>)) : s \in StatusInputs})
    \cup ({DeleteCall} \X {Peer(<<"AF_INET">>, Response(s, <<LF>>, <<>>)) : s \in StatusInputs})
    \cup ({GetCall(FALSE, FALSE, FALSE), HeadCall(FALSE, FALSE), DeleteCall,
           PutCall(FALSE, <<3, 0, 0, 0>>, FALSE, NULL)}
        \X {Peer(a, BaseResponse) : a \in AddrLists})
    \cup {<<GetCall(TRUE, FALSE, FALSE), Peer(<<"AF_INET">>, BaseResponse)>>}

\* ---------------------------------------------------------------- descriptors

NoUrl == [scheme |-> <<>>, host |-> <<>>, hasPort |-> FALSE, port |-> <<>>,
          hasPath |-> FALSE, path |-> <<>>]

NoOp == [op |-> "none", ret |-> 0, oob |-> FALSE, url |-> NoUrl]

\* a descriptor before its first parse: zero-initialised, the proxy optionally
\* set by the caller
FreshReqs == {ZeroReq,
              [ZeroReq EXCEPT !.proxy_server = Str(<<"p", "x">>), !.proxy_port = 3128]}

\* a descriptor as the caller fills it: parsed from a URL, then user_agent and
\* optionally the proxy set
Parsed == http_parse_url(ZeroReq, ZeroHeap, <<"h", "t", "t", "p", ":", "/", "/", "h", ":", "8", "0", "8", "0", "/", "d", "/", "f">>, <<>>)

\* a user agent string that, with the rest of the head, does not fit MAXBUF
LongAgent == [i \in 1..(MAXBUF - 12) |-> "a"]

NetReqs ==
    {[Parsed.req EXCEPT !.user_agent = Str(<<"u", "a">>)],
     [Parsed.req EXCEPT !.user_agent = Str(<<"u", "a">>), !.proxy_server = Str(<<"p", "x">>),
                        !.proxy_port = 3128],
     [Parsed.req EXCEPT !.user_agent = Str(<<"u", "a">>), !.proxy_server = Str(<<"p", "x">>)],
     [Parsed.req EXCEPT !.user_agent = Str(<<"u", "a">>), !.proxy_port = 3128],
     [Parsed.req EXCEPT !.user_agent = Str(LongAgent)]}

\* ---------------------------------------------------------------- actions

\* a caller starts a verb operation on the descriptor
Call(c, p) ==
    /\ m.pc = "idle"
    /\ call' = c
    /\ peer' = p
    /\ m' = Entry(c)
    /\ UNCHANGED <<req, heap, u>>

\* the caller has the result; the descriptor is ready for the next call
Return ==
    /\ m.pc = "done"
    /\ call' = NoCall
    /\ peer' = NoPeer
    /\ m' = Idle
    /\ UNCHANGED <<req, heap, u>>

Getaddrinfo ==
    /\ m.pc = "resolve"
    /\ \/ m' = AfterGetaddrinfo(m, call, req, -2, <<>>)
       \/ m' = AfterGetaddrinfo(m, call, req, 0, peer.addrs)
    /\ UNCHANGED <<req, heap, u, call, peer>>

Socket ==
    /\ m.pc = "socket"
    /\ \E s \in {-1, 3} : m' = AfterSocket(m, call, s)
    /\ UNCHANGED <<req, heap, u, call, peer>>

Connect ==
    /\ m.pc = "connect"
    /\ \E rc \in {-1, 0} : m' = AfterConnect(m, call, req, rc)
    /\ UNCHANGED <<req, heap, u, call, peer>>

SendHeader ==
    /\ m.pc = "send_header"
    /\ \E sent \in {-1, Len(m.header) - 1, Len(m.header)} : m' = AfterSendHeader(m, call, sent)
    /\ UNCHANGED <<req, heap, u, call, peer>>

SendBody ==
    /\ m.pc = "send_body"
    /\ \E sent \in {ToSizeT(-1), SizeZero, call.length} : m' = AfterSendBody(m, call, sent)
    /\ UNCHANGED <<req, heap, u, call, peer>>

RecvLine ==
    /\ m.pc \in {"status_line", "header_line"}
    /\ \E r \in {-1, 0, 1} :
          /\ r = 1 => m.pos < Len(peer.bytes)
          /\ m' = AfterRecvLine(m, call, peer.bytes, r)
    /\ UNCHANGED <<req, heap, u, call, peer>>

Malloc ==
    /\ m.pc = "malloc"
    /\ \E ok \in BOOLEAN : m' = AfterMalloc(m, call, ok)
    /\ UNCHANGED <<req, heap, u, call, peer>>

RecvBody ==
    /\ m.pc = "body"
    /\ \E r \in -1..Min(m.length - m.n, Len(peer.bytes) - m.pos) : m' = AfterRecvBody(m, peer.bytes, r)
    /\ UNCHANGED <<req, heap, u, call, peer>>

ParseUrl(url, beyond) ==
    /\ m.pc = "idle"
    /\ heap.urlCopies < MaxParse
    /\ LET o == http_parse_url(req, heap, UrlText(url), beyond)
       IN  /\ req' = o.req
           /\ heap' = o.heap
           /\ u' = [op |-> "parse", ret |-> o.ret, oob |-> o.oob, url |-> url]
    /\ UNCHANGED <<call, peer, m>>

FreeReq ==
    /\ m.pc = "idle"
    /\ u.op # "free"
    /\ LET o == http_freereq(req, heap)
       IN  /\ req' = o.req
           /\ heap' = o.heap
           /\ u' = [u EXCEPT !.op = "free"]
    /\ UNCHANGED <<call, peer, m>>

\* ---------------------------------------------------------------- specifications

\* The verb operations, on a descriptor the caller has filled.
Init ==
    /\ req \in NetReqs
    /\ heap = [ZeroHeap EXCEPT !.urlCopies = 1,
                               !.fieldLive = IF req.proxy_server.st = "live" THEN 4 ELSE 3]
    /\ u = NoOp
    /\ call = NoCall
    /\ peer = NoPeer
    /\ m = Idle

Next ==
    \/ \E sc \in Scenarios : Call(sc[1], sc[2])
    \/ Return
    \/ Getaddrinfo
    \/ Socket
    \/ Connect
    \/ SendHeader
    \/ SendBody
    \/ RecvLine
    \/ Malloc
    \/ RecvBody

Spec == Init /\ [][Next]_vars

\* The descriptor's life: parsed, parsed again, released.
InitUrl ==
    /\ req \in FreshReqs
    /\ heap = [ZeroHeap EXCEPT !.fieldLive = IF req.proxy_server.st = "live" THEN 1 ELSE 0]
    /\ u = NoOp
    /\ call = NoCall
    /\ peer = NoPeer
    /\ m = Idle

NextUrl ==
    \/ \E url \in UrlInputs, beyond \in Beyond : ParseUrl(url, beyond)
    \/ FreeReq

SpecUrl == InitUrl /\ [][NextUrl]_vars

\* ---------------------------------------------------------------- properties

\* the response's header lines are text: none holds a NUL byte
TextHeaders(r) == \A i \in 1..Len(r.hdrs) : \A k \in 1..Len(r.hdrs[i].text) : r.hdrs[i].text[k] # NUL

\* every header line, with the CR of its line ending, is shorter than the
\* MAXBUF-1 bytes http_read_line reads in one call
ShortLines(r) == \A i \in 1..Len(r.hdrs) : Len(r.hdrs[i].text) + Len(r.eol) < MAXBUF - 1

\* the values of the response's Content-Length headers
DeclaredLengths(r) == {r.hdrs[i].val : i \in {j \in 1..Len(r.hdrs) : r.hdrs[j].kind = "length"}}

\* the server answered 200 on a well-formed status line
Answers200(r) == r.status.wf /\ r.status.code = 200

\* the bytes of the status line with its line ending
StatusEnd(r) == Len(r.status.text) + Len(r.eol)

\* C1: in every call of http_put, http_get, http_head and http_delete, whatever
\* resolution, socket, connect, the writes and the reads return, a socket is
\* never closed more often than it was created nor an address list freed more
\* often than obtained, no descriptor other than the socket is closed, and when
\* the call returns every socket created has been closed exactly once and every
\* address list obtained freed exactly once.
C1_SocketAndAddrinfoReleased ==
    /\ m.created <= 1
    /\ m.closes <= m.created
    /\ m.aiFrees <= m.aiAllocs
    /\ ~m.badclose
    /\ m.pc = "done" => /\ m.closes = m.created
                        /\ m.aiFrees = m.aiAllocs
                        /\ ~m.aiLive

\* C1 witness: http_get failed after http_query handed it the open socket, and
\* returned with the socket closed once and the address list freed once
C1_Witness ==
    /\ m.pc = "done"
    /\ call.verb = "GET"
    /\ m.ret = ERRNOLG
    /\ m.created = 1 /\ m.closes = 1
    /\ m.aiAllocs = 1 /\ m.aiFrees = 1

\* C2: when no call of the client's fails and the server answers a
\* GET with status 200, text header lines among which exactly one Content-Length
\* header of value L > 0, an empty line and at least L body bytes, http_get
\* returns 200, sets *plength to L and leaves in *pdata the first L body bytes.
C2_GetReturnsDeclaredBody ==
    (/\ m.pc = "done"
     /\ call.verb = "GET" /\ ~call.pdataNull
     /\ m.fail = "none"
     /\ Answers200(peer.resp)
     /\ TextHeaders(peer.resp)
     /\ Cardinality(DeclaredLengths(peer.resp)) = 1
     /\ \A L \in DeclaredLengths(peer.resp) : L > 0 /\ Len(peer.resp.body) >= L)
    => \A L \in DeclaredLengths(peer.resp) :
          /\ m.ret = 200
          /\ ~call.plengthNull => m.plength = ToSizeT(L)
          /\ m.pdata = Str(Take(peer.resp.body, L))

\* C3: when no call of the client's fails and the server answers a
\* GET with status 200 and text header lines, up to the empty line, in which
\* every Content-Length header (if any) has a value of zero or less, http_get
\* returns ERRNOLG, has read no body byte, has closed the connection and leaves
\* *pdata NULL.
C3_GetWithoutLengthFails ==
    (/\ m.pc = "done"
     /\ call.verb = "GET" /\ ~call.pdataNull
     /\ m.fail = "none"
     /\ Answers200(peer.resp)
     /\ TextHeaders(peer.resp)
     /\ \A L \in DeclaredLengths(peer.resp) : L <= 0)
    => /\ m.ret = ERRNOLG
       /\ m.pos < BodyStart(peer.resp)
       /\ m.closes = 1
       /\ m.pdata = NULL

\* C4: http_head never consumes a body byte, whatever the response and the
\* Content-Length it reports: what it has read never extends past the LF of the
\* first empty header line; it allocates no buffer; and when it returns 200
\* after reading lines shorter than the line buffer, it has read exactly up to
\* that LF and closed the connection.
C4_HeadReadsNoBody ==
    call.verb = "HEAD" =>
        /\ m.pos < BodyStart(peer.resp)
        /\ m.mallocs = 0 /\ m.pdata = NULL
        /\ (/\ m.pc = "done" /\ m.ret = 200 /\ m.fail = "none"
            /\ TextHeaders(peer.resp) /\ ShortLines(peer.resp))
           => /\ m.pos = BodyStart(peer.resp) - 1
              /\ m.closes = 1

\* C4 witness: http_head returned 200 for a response that reports a length and
\* carries a body, having read up to the empty line
C4_Witness ==
    /\ m.pc = "done"
    /\ call.verb = "HEAD"
    /\ m.ret = 200
    /\ m.length = 5
    /\ Len(peer.resp.body) > 0
    /\ m.pos = BodyStart(peer.resp) - 1

\* C5: when no call of the client's fails and the status line has the form
\* HTTP/1.<minor> <ddd>, http_put and http_delete return the number ddd, and
\* http_get and http_head return ddd when it is not 200, having read nothing
\* past the status line; the request was written once.
C5_StatusPassedThrough ==
    (m.pc = "done" /\ peer.resp.status.wf /\ m.fail = "none" /\ ~call.pdataNull) =>
        /\ ~KeepOpen(call) => m.ret = peer.resp.status.code
        /\ (KeepOpen(call) /\ peer.resp.status.code # 200) =>
               /\ m.ret = peer.resp.status.code
               /\ m.pos <= StatusEnd(peer.resp)
        /\ Cardinality({i \in 1..Len(m.steps) : m.steps[i] = "write_header"}) = 1

\* C5 witness: http_get returned the 404 of the server, with the headers and
\* the body that follow unread
C5_Witness ==
    /\ m.pc = "done"
    /\ call.verb = "GET"
    /\ peer.resp.status.wf /\ peer.resp.status.code = 404
    /\ m.ret = 404
    /\ m.pos < Len(peer.bytes)

\* a failure on the client's side: a call that failed, a status line that
\* did not parse, a null data pointer, or after a 200 a missing length
ClientFailure ==
    \/ m.fail # "none"
    \/ ~m.parsed
    \/ m.status = 200 /\ m.ret = ERRNOLG

\* C6: a verb operation returns a negative value only after a
\* failure on the client's side, and what sscanf takes from a status line that
\* parsed is never negative.
C6_NegativeMeansClientFailure ==
    /\ m.parsed => m.status >= 0
    /\ (m.pc = "done" /\ m.ret < 0) => ClientFailure

\* the steps of http_query in the order of the code
QuerySteps(c) == <<"resolve", "socket", "connect", "write_header">>
                 \o (IF HasBody(c) THEN <<"write_body">> ELSE <<>>)
                 \o <<"read_status">>

\* the code of each step
StepCode(f) == CASE f = "resolve" -> ERRHOST
                 [] f = "socket" -> ERRSOCK
                 [] f = "connect" -> ERRCONN
                 [] f = "write_header" -> ERRWRHD
                 [] f = "write_body" -> ERRWRDT
                 [] OTHER -> ERRRDHD

\* C7: http_query takes its steps in the order resolution, socket, connect,
\* header write, body write, status line, each at most once; the first step
\* that fails is the last step taken and the call returns that step's code; no
\* socket exists after a failed resolution, nothing is written unless connect
\* succeeded, no body byte is written after a short header write and nothing is
\* read after a short write; a status line that was read and does not parse
\* gives ERRPAHD.
C7_StepsInOrderFirstFailureEnds ==
    /\ m.steps = Take(QuerySteps(call), Len(m.steps))
    /\ (m.fail \in {"resolve", "socket", "connect", "write_header", "write_body"}
        \/ (m.fail = "read" /\ ~m.parsed)) =>
           /\ m.pc = "done"
           /\ m.ret = StepCode(m.fail)
           /\ m.steps[Len(m.steps)] = IF m.fail = "read" THEN "read_status" ELSE m.fail
    /\ m.fail = "resolve" => m.created = 0
    /\ m.fail \in {"resolve", "socket", "connect"} => m.wrote = <<>> /\ m.body = SizeZero
    /\ m.fail = "write_header" => m.body = SizeZero
    /\ m.fail \in {"resolve", "socket", "connect", "write_header", "write_body"} => m.pos = 0
    /\ (Len(m.steps) >= 4 /\ m.wrote # m.header) =>
           m.fail = "write_header" /\ m.body = SizeZero /\ m.pos = 0
    /\ (Len(m.steps) >= 5 /\ HasBody(call) /\ m.body # call.length) =>
           m.fail = "write_body" /\ m.pos = 0
    /\ (m.pc = "done" /\ m.fail = "none" /\ ~m.parsed /\ ~call.pdataNull) => m.ret = ERRPAHD

\* C7 witness: http_put returned ERRWRHD after a short header write, with a
\* body to send
C7_Witness ==
    /\ m.pc = "done"
    /\ m.fail = "write_header"
    /\ HasBody(call)
    /\ m.ret = ERRWRHD

\* C8: when http_get returns an error after it allocated the
\* response buffer, the buffer has been freed.
C8_BufferFreedOnError ==
    (m.pc = "done" /\ call.verb = "GET" /\ m.ret < 0 /\ m.mallocs > 0) =>
        m.frees = m.mallocs /\ m.pdata.st # "live"

RECURSIVE DecimalValue(_)
\* the number a string of decimal digits denotes
DecimalValue(s) == IF s = <<>> THEN 0
                   ELSE 10 * DecimalValue(SubSeq(s, 1, Len(s) - 1)) + DigitVal(s[Len(s)])

\* a non-empty string of decimal digits
IsDecimal(s) == s # <<>> /\ \A i \in 1..Len(s) : IsDigit(s[i])

\* http://host[:port]/path with a decimal port
WellFormedUrl(url) ==
    /\ url.scheme \in {S_http, S_HTTP}
    /\ url.hasPath
    /\ url.hasPort => IsDecimal(url.port)

\* C9: for a URL http://host[:port]/path, host free of ':' and '/', port
\* decimal, http_parse_url returns 0 with server the host, port the number
\* given (80 when there is none) and pathname the path without its leading
\* slash: the three fields give back the URL's components.
C9_ParseUrlRoundTrip ==
    (u.op = "parse" /\ WellFormedUrl(u.url)) =>
        /\ u.ret = 0
        /\ req.server = Str(u.url.host)
        /\ req.port = IF u.url.hasPort THEN DecimalValue(u.url.port) ELSE DefaultPort
        /\ req.pathname = Str(u.url.path)
        /\ ~u.oob

\* C9 witness: a URL with a host, a port and a path of two segments was parsed
C9_Witness ==
    /\ u.op = "parse"
    /\ u.ret = 0
    /\ u.url.hasPort /\ u.url.hasPath
    /\ req.server = Str(<<"a", ".", "b">>)
    /\ req.port = 8080
    /\ req.pathname = Str(<<"a", "/", "b">>)

\* the strings the descriptor's fields hold
LiveFields(r) == Cardinality({f \in {"server", "pathname", "proxy_server"} : r[f].st = "live"})

\* C10: when http_parse_url returns a failure code, server and
\* pathname are both NULL and no string they held is still allocated.
C10_FailedParseClearsFields ==
    (u.op = "parse" /\ u.ret < 0) =>
        /\ req.server = NULL
        /\ req.pathname = NULL
        /\ heap.fieldLive = LiveFields([req EXCEPT !.server = NULL, !.pathname = NULL])
        /\ heap.lost = 0

\* C11: after every http_parse_url call that returns 0, server is a non-empty
\* string and port is an integer in 1..65535.
C11_ParsedDescriptorValid ==
    (u.op = "parse" /\ u.ret = 0) =>
        /\ req.server.st = "live"
        /\ req.server.s # <<>>
        /\ req.port \in 1..65535

\* C12: over any sequence of http_parse_url and http_freereq calls on one
\* descriptor, no string held in server, pathname or proxy_server is
\* overwritten while still allocated, none is freed twice and every live string
\* is held by a field; after http_freereq the three fields are NULL, none of
\* their strings is live, and a second http_freereq changes nothing.
C12_FieldsNeverLeakedNorFreedTwice ==
    /\ heap.lost = 0
    /\ ~heap.dfree
    /\ heap.fieldLive = LiveFields(req)
    /\ \A f \in {req.server, req.pathname, req.proxy_server} : f.st # "freed"
    /\ u.op = "free" =>
          /\ req.server = NULL /\ req.pathname = NULL /\ req.proxy_server = NULL
          /\ heap.fieldLive = 0
          /\ http_freereq(req, heap) = [req |-> req, heap |-> heap]

\* C12 witness: a descriptor with a proxy was parsed, parsed again over the
\* strings of the first parse, and released
C12_Witness ==
    /\ u.op = "free"
    /\ heap.urlCopies = 2
    /\ u.ret = 0
    /\ req.proxy_port = 3128
    /\ req.server = NULL /\ req.pathname = NULL /\ req.proxy_server = NULL

\* the request line the claim gives for a descriptor and a method
RequestLine(r, method) ==
    IF r.proxy_server # NULL /\ r.proxy_port # 0
    THEN method \o <<" ">> \o S_http \o r.server.s \o <<":">> \o FmtInt(r.port) \o <<"/">>
         \o r.pathname.s \o <<" ", "H", "T", "T", "P", "/", "1", ".", "0", CR, LF>>
    ELSE method \o <<" ", "/">> \o r.pathname.s
         \o <<" ", "H", "T", "T", "P", "/", "1", ".", "0", CR, LF>>

\* C13: http_query uses the proxy exactly when proxy_server is set and
\* proxy_port is not zero: it then resolves proxy_server, connects on proxy_port
\* and sends the request line METHOD http://server:port/pathname HTTP/1.0; in
\* every other case, also when only one of the two proxy fields is set, it
\* resolves server, connects on port and sends METHOD /pathname HTTP/1.0.
C13_ProxyExactlyWhenBothSet ==
    LET proxy == req.proxy_server # NULL /\ req.proxy_port # 0
    IN  /\ Len(m.steps) >= 1 =>
              /\ m.target = IF proxy THEN req.proxy_server ELSE req.server
              /\ m.port = IF proxy THEN req.proxy_port ELSE req.port
        /\ m.header # <<>> =>
              Take(m.header, Len(RequestLine(req, Method(call)))) = RequestLine(req, Method(call))
        /\ (m.wrote # <<>> /\ m.fail # "write_header") => m.wrote = m.header

\* C13 witness: a request went through the proxy and was answered, and the
\* request line written names the server, its port and the path
C13_Witness ==
    /\ m.pc = "done"
    /\ m.ret = 200
    /\ m.target = Str(<<"p", "x">>) /\ m.port = 3128
    /\ req.server = Str(<<"h">>) /\ req.port = 8080
    /\ Take(m.wrote, 26) = <<"G", "E", "T", " ", "h", "t", "t", "p", ":", "/", "/", "h", ":", "8", "0", "8", "0", "/", "d", "/", "f", " ", "H", "T", "T", "P">>

\* the bytes the current call of http_read_line has consumed
LineConsumed == Slice(peer.bytes, m.pos - m.n + 1, m.pos)

\* C14: a call of http_read_line never consumes more than max bytes nor a byte
\* past the first LF; hence when http_get or http_head has read the blank line
\* that ends the headers of a 200 response with text header lines, the bytes
\* consumed end right before the first body byte.
C14_HeaderEndsAtFirstBodyByte ==
    /\ (m.pc \in {"status_line", "header_line"} /\ m.n >= 0) =>
           /\ m.n <= MAXBUF - 1
           /\ m.n <= m.pos
           /\ \A k \in 1..Len(LineConsumed) : LineConsumed[k] # LF
    /\ (Answers200(peer.resp) /\ TextHeaders(peer.resp)) =>
           /\ m.pc = "malloc" => m.pos = BodyStart(peer.resp) - 1
           /\ (m.pc = "done" /\ call.verb = "HEAD" /\ m.ret = 200 /\ m.fail = "none") =>
                  m.pos = BodyStart(peer.resp) - 1

\* http_put or http_delete returned after http_query read the status line with
\* no failing call: m.n and m.buf are what that call of http_read_line returned
\* and stored
StatusLineRead ==
    /\ m.pc = "done" /\ ~KeepOpen(call) /\ call.verb # "none"
    /\ m.fail = "none"
    /\ Len(m.steps) > 0 /\ m.steps[Len(m.steps)] = "read_status"

NotEol(c) == c \notin {CR, LF}

\* C15, as stated: on success http_read_line returns the number of bytes
\* stored in the line buffer, counting neither the CR bytes nor the LF.
C15_ReadLineReturnsStoredCount ==
    StatusLineRead => m.n = Len(m.buf)

\* C15, amended: on success http_read_line returns the number of bytes it
\* consumed from the stream, the CR bytes and the LF included, and the buffer
\* holds the bytes consumed without CR and LF: for "abc", CR, LF it stores
\* "abc" and returns 5.
C15_ReadLineReturnsConsumedCount ==
    /\ (m.pc \in {"status_line", "header_line"} /\ m.n >= 0) =>
           /\ m.n = Len(LineConsumed)
           /\ m.buf = SelectSeq(LineConsumed, NotEol)
    /\ StatusLineRead =>
           /\ m.n = m.pos
           /\ m.n = Len(peer.resp.status.text) + Len(peer.resp.eol)
           /\ m.buf = peer.resp.status.text
           /\ peer.bytes[m.pos] = LF

\* C15 witness: the line "abc", CR, LF was read as "abc" with result 5
C15_Witness ==
    /\ StatusLineRead
    /\ Take(peer.bytes, 5) = <<"a", "b", "c", CR, LF>>
    /\ m.buf = <<"a", "b", "c">>
    /\ m.n = 5

\* the bytes of the stream from where http_read_buffer started, as many as it
\* has consumed
BufferConsumed == Slice(peer.bytes, m.pos - m.n + 1, m.pos)

RequestHead(r, c) ==
    RequestLine(r, Method(c))
    \o <<"U", "s", "e", "r", "-", "A", "g", "e", "n", "t", ":", " ">> \o r.user_agent.s \o S_crlf
    \o AdditionalHeader(c) \o S_crlf

\* C17: for every descriptor, method and additional header, the header block
\* http_query hands to send is at most MAXBUF-1 bytes and is a complete request
\* head: request line, User-Agent line, additional header lines and an empty
\* line, each ended by CR LF.
C17_HeadCompleteWithinBuffer ==
    m.header # <<>> =>
        /\ Len(m.header) <= MAXBUF - 1
        /\ m.header = RequestHead(req, call)
        /\ Slice(m.header, Len(m.header) - 3, Len(m.header)) = S_crlf \o S_crlf

\* C18: http_query connects to the first entry of the address list whose family
\* is IPv4 or IPv6, also when it is not the head of the list: the family of the
\* socket, the address and the address length passed to connect come from that
\* entry.
C18_ConnectsToFirstUsableEntry ==
    (Len(m.steps) >= 3 /\ m.steps[3] = "connect") =>
        /\ m.ai[m.thisaddr] \in {"AF_INET", "AF_INET6"}
        /\ \A j \in 1..(m.thisaddr - 1) : m.ai[j] \notin {"AF_INET", "AF_INET6"}
        /\ m.sockFrom = m.thisaddr
        /\ m.lenFrom = m.thisaddr
        /\ m.addrFrom = m.thisaddr

\* C19: for a URL with no '/' after the host, with or without a decimal port,
\* http_parse_url returns 0 with pathname the empty string, and reads no
\* character beyond the end of the URL string.
C19_NoSlashGivesEmptyPath ==
    (/\ u.op = "parse"
     /\ u.url.scheme \in {S_http, S_HTTP}
     /\ u.url.host # <<>>
     /\ ~u.url.hasPath
     /\ u.url.hasPort => IsDecimal(u.url.port)) =>
        /\ u.ret = 0
        /\ req.pathname = Str(<<>>)
        /\ ~u.oob

\* where the Content-length header starts in the bytes written
PutLengthAt == CHOOSE i \in 1..Len(m.wrote) : MatchAt(m.wrote, i, S_putlen)

\* the value of the Content-length header written
PutLengthSent == ScanInt(m.wrote, PutLengthAt + Len(S_putlen), -1).val

\* C20: in every http_put call whose writes all succeed, the Content-length
\* value sent in the request header equals the number of body bytes written
\* after the header, for every data pointer and every length.
C20_PutLengthMatchesBodyWritten ==
    (/\ m.pc = "done" /\ call.verb = "PUT"
     /\ m.fail = "none"
     /\ \E i \in 1..Len(m.wrote) : MatchAt(m.wrote, i, S_putlen)) =>
        /\ PutLengthSent >= 0
        /\ ToSizeT(PutLengthSent) = m.body

====
